---- MODULE Spec2Model ----
(***************************************************************************)
(* Model of kas/repos.py: the Repo entity, its Git and Mercurial backends  *)
(* and the three synchronization algorithms fetch_async, checkout and      *)
(* apply_patches_async.  External commands are steps whose exit code is    *)
(* chosen by the environment; the working tree and the reference cache are *)
(* the on-disk state the commands change.                                  *)
(***************************************************************************)
EXTENDS Integers, Sequences, FiniteSets, TLC

VARIABLES
    ctx,          \* get_context(): kas_repo_ref_dir, update, force_checkout
    repo,         \* the Repo instance: typ, operations_disabled, refspec, _patches
    patches_dict, \* repo_config['patches'] in the order the manifest declares it
    series,       \* the lines of the series file of the patch directory
    sdir,         \* <refdir>/<qualified_name>: "absent", "empty" or "bare"
    tmpdir,       \* per run: its TemporaryDirectory under refdir
    path,         \* per run: the working tree at self.path
    pc,           \* per run: the statement about to be executed
    retc,         \* per run: the value the last finished function returned
    k,            \* per run: position of apply_patches_async in my_patches
    log,          \* per run: commands issued since fetch_async was started
    saved,        \* per run: the working tree when the running function began
    prev,         \* per run: how the directly preceding fetch_async ended
    interrupted,  \* per run: an earlier synchronization was cancelled
    active,       \* the runs the driver started
    repo_config,  \* Repo.factory: the repository record and the defaults
    environ,      \* os.environ['KAS_PREMIRRORS'], one element per line
    result        \* what the function called on its own returned

vars == <<ctx, repo, patches_dict, series, sdir, tmpdir, path, pc, retc, k, log,
          saved, prev, interrupted, active, repo_config, environ, result>>

\* configuration: fixed once the Repo instances are constructed
config == <<ctx, repo, patches_dict, series, active, repo_config, environ,
            result>>

\* ---------------------------------------------------------------- bounds
\* patch ids are 1..MaxPatches and a manifest declares at most MaxPatches
MaxPatches == 2

\* a series file read on its own has at most MaxLines lines
MaxLines == 2

\* KAS_PREMIRRORS holds at most MaxRules lines
MaxRules == 2

\* ------------------------------------------------------------- constants
Procs == {1, 2}
NonZero == {1, 2}
None == "None"

\* MercurialRepo.set_remote_url_cmd raises instead of building a command
NotImplementedError == 0 - 1

\* pc values at which a function has returned to the driver
Returned == {"idle", "fetched", "checked_out", "patched"}

\* pc values at which the next step is an external command
Awaiting == {"cache_clone", "wt_clone", "set_url", "contains", "fetch",
             "is_dirty", "resolve", "prepare", "apply", "add", "commit"}

NoTree == [exists |-> FALSE, contains |-> FALSE, head |-> "none",
           patched |-> FALSE, commits |-> <<>>, dirty |-> {}]

NoPatch == [file |-> <<>>, id |-> 0]

\* no function was called on its own
NoResult == [kind |-> "none"]

\* a dict without keys: the value of a key that is not in keys is not there
NoConfig == [keys |-> {}, url |-> None, refspec |-> None, type |-> None,
             path |-> None, layers |-> <<>>,
             defaults |-> [keys |-> {}, refspec |-> None]]

Entry(cmd, arg, rc) ==
    [cmd |-> cmd, arg |-> arg, rc |-> rc, opts |-> {}, patch |-> NoPatch]

EntryWith(cmd, arg, rc, opts) ==
    [cmd |-> cmd, arg |-> arg, rc |-> rc, opts |-> opts, patch |-> NoPatch]

PatchEntry(cmd, arg, rc, opts, patch) ==
    [cmd |-> cmd, arg |-> arg, rc |-> rc, opts |-> opts, patch |-> patch]

Issued(p, cmd) == \E i \in 1..Len(log[p]) : log[p][i].cmd = cmd

Count(p, cmd) == Cardinality({i \in 1..Len(log[p]) : log[p][i].cmd = cmd})

\* ------------------------------------------------------- backend strategy
\* clone_cmd: where the clone reads from
CloneSource(srcdir, createref) ==
    IF repo.typ = "git"
    THEN IF createref THEN "url" ELSE IF srcdir THEN "cache" ELSE "url"
    ELSE IF createref THEN "true" ELSE "url"

\* exit codes the environment can give the cache clone
CloneRefCodes ==
    IF CloneSource(TRUE, TRUE) = "true" THEN {0} ELSE {0} \cup NonZero

\* what a successful cache clone leaves in the temporary directory
CloneRefResult == IF CloneSource(TRUE, TRUE) = "true" THEN "empty" ELSE "bare"

\* exit codes the environment can give the working-tree clone
CloneCodes(p) ==
    IF CloneSource(ctx.kas_repo_ref_dir, FALSE) = "cache" /\ sdir # "bare"
    THEN NonZero ELSE {0} \cup NonZero

\* exit codes of a command run with cwd = self.path
InTreeCodes(p) == IF path[p].exists THEN {0} \cup NonZero ELSE NonZero

\* resolve_branch_cmd: can the command print a ref
ResolveOutputs(p) ==
    IF repo.typ = "git" /\ path[p].exists /\ path[p].contains
    THEN BOOLEAN ELSE {FALSE}

\* the force_checkout flag is not handed on to the command
CheckoutOptsUnforced(branch) ==
    IF repo.typ = "git" /\ branch THEN {"-B"} ELSE {}

\* checkout_cmd: the options the command line carries
CheckoutOpts(branch) ==
    (IF repo.typ = "git" /\ branch THEN {"-B"} ELSE {})
      \cup (IF ctx.force_checkout
            THEN {IF repo.typ = "git" THEN "--force" ELSE "--clean"}
            ELSE {})

\* ------------------------------------------------------------ shared steps
Return(p, label, rc) ==
    /\ retc' = [retc EXCEPT ![p] = rc]
    /\ pc' = [pc EXCEPT ![p] = label]

Goto(p, label) ==
    /\ pc' = [pc EXCEPT ![p] = label]
    /\ UNCHANGED retc

Issue(p, e) == log' = [log EXCEPT ![p] = Append(@, e)]

\* -------------------------------------------------------------- fetch_async
\* the cache is taken to be there
CacheMissingNever == FALSE

\* line 190: the cache has to be populated
CacheMissing == ctx.kas_repo_ref_dir /\ sdir = "absent"

\* os.rename(tmpdir, sdir) succeeds unless the target is a non-empty directory
RenameSucceeds == sdir \in {"absent", "empty"}

\* how the fetch_async that has just returned ended
LastFetch(p) ==
    IF pc[p] # "fetched" THEN "none"
    ELSE IF \E i \in 1..Len(log[p]) :
                log[p][i].cmd = "contains_refspec" /\ log[p][i].rc = 0
         THEN "contained"
         ELSE "other"

\* lines 183-193
FetchStart(p) ==
    /\ p \in active
    /\ pc[p] \in Returned
    /\ prev' = [prev EXCEPT ![p] = LastFetch(p)]
    /\ log' = [log EXCEPT ![p] = <<>>]
    /\ saved' = [saved EXCEPT ![p] = path[p]]
    /\ IF repo.operations_disabled
       THEN Return(p, "fetched", 0) /\ UNCHANGED tmpdir
       ELSE IF CacheMissing
            THEN /\ tmpdir' = [tmpdir EXCEPT ![p] = "empty"]
                 /\ Goto(p, "cache_clone")
            ELSE Goto(p, "wt_clone") /\ UNCHANGED tmpdir
    /\ UNCHANGED <<config, sdir, path, k, interrupted>>

\* the exit code of the cache clone is not looked at
CacheCloneAbortsNever(rc) == FALSE

\* line 197
CacheCloneAborts(rc) == rc # 0

\* lines 194-198
CacheClone(p) ==
    /\ pc[p] = "cache_clone"
    /\ \E rc \in CloneRefCodes :
         /\ Issue(p, Entry("clone_ref", 0, rc))
         /\ IF CacheCloneAborts(rc)
            THEN /\ tmpdir' = [tmpdir EXCEPT ![p] = "absent"]
                 /\ Return(p, "fetched", rc)
            ELSE /\ tmpdir' = [tmpdir EXCEPT
                                 ![p] = IF rc = 0 THEN CloneRefResult ELSE "empty"]
                 /\ Goto(p, "cache_rename")
    /\ UNCHANGED <<config, sdir, path, k, saved, prev, interrupted>>

\* an OSError that is not caught ends the run with a failure
RenameLostRaises(p) ==
    /\ tmpdir' = [tmpdir EXCEPT ![p] = "absent"]
    /\ Return(p, "fetched", 1)
    /\ UNCHANGED sdir

\* lines 206-208: the rename lost against another instance
RenameLost(p) ==
    /\ Goto(p, "cache_cleanup")
    /\ UNCHANGED <<sdir, tmpdir>>

\* lines 201-205: sys.version_info < (3, 8) recreates the moved directory
RenameWon(p) ==
    /\ sdir' = tmpdir[p]
    /\ \E old_python \in BOOLEAN :
         tmpdir' = [tmpdir EXCEPT
                      ![p] = IF old_python THEN "empty" ELSE "absent"]
    /\ Goto(p, "cache_cleanup")

\* lines 201-208
CacheRename(p) ==
    /\ pc[p] = "cache_rename"
    /\ IF RenameSucceeds THEN RenameWon(p) ELSE RenameLost(p)
    /\ UNCHANGED <<config, path, k, log, saved, prev, interrupted>>

\* leaving the with block of line 192
CacheCleanup(p) ==
    /\ pc[p] = "cache_cleanup"
    /\ tmpdir' = [tmpdir EXCEPT ![p] = "absent"]
    /\ Goto(p, "wt_clone")
    /\ UNCHANGED <<config, sdir, path, k, log, saved, prev, interrupted>>

\* the working tree a clone leaves behind
Cloned(has) == [exists |-> TRUE, contains |-> has, head |-> "clone",
                patched |-> FALSE, commits |-> <<>>, dirty |-> {}]

\* lines 210-216
FetchClone(p) ==
    /\ pc[p] = "wt_clone"
    /\ IF path[p].exists
       THEN UNCHANGED <<path, log>>
       ELSE \E rc \in CloneCodes(p) :
              /\ Issue(p, Entry("clone", 0, rc))
              /\ IF rc = 0
                 THEN \E has \in BOOLEAN :
                        path' = [path EXCEPT ![p] = Cloned(has)]
                 ELSE \/ UNCHANGED path
                      \/ \E has \in BOOLEAN :
                           path' = [path EXCEPT ![p] = Cloned(has)]
    /\ Goto(p, "set_url")
    /\ UNCHANGED <<config, sdir, tmpdir, k, saved, prev, interrupted>>

\* the refspec is fetched without asking whether it is there
AfterSetUrlFetches(p) ==
    IF repo.refspec = None
    THEN Return(p, "fetched", 0)
    ELSE Goto(p, "fetch")

\* lines 231-235: where fetch_async goes once the remote url is dealt with
AfterSetUrl(p) ==
    IF repo.refspec = None
    THEN Return(p, "fetched", 0)
    ELSE IF ~ctx.update THEN Goto(p, "contains") ELSE Goto(p, "fetch")

\* a failed set-url is only logged
SetUrlAbortsNever(rc) == FALSE

\* line 225
SetUrlAborts(rc) == rc # 0

\* lines 220-229
SetRemoteUrl(p) ==
    /\ pc[p] = "set_url"
    /\ IF repo.typ = "hg"
       THEN /\ Issue(p, Entry("set_remote_url", 0, NotImplementedError))
            /\ AfterSetUrl(p)
       ELSE \E rc \in InTreeCodes(p) :
              /\ Issue(p, Entry("set_remote_url", 0, rc))
              /\ IF SetUrlAborts(rc)
                 THEN Return(p, "fetched", rc)
                 ELSE AfterSetUrl(p)
    /\ UNCHANGED <<config, sdir, tmpdir, path, k, saved, prev, interrupted>>

\* the result of contains_refspec_cmd is not looked at
RefspecPresentNever(rc) == FALSE

\* line 241
RefspecPresent(rc) == rc = 0

\* lines 237-244
ContainsRefspec(p) ==
    /\ pc[p] = "contains"
    /\ \E rc \in (IF path[p].exists /\ path[p].contains THEN {0} ELSE NonZero) :
         /\ Issue(p, Entry("contains_refspec", 0, rc))
         /\ IF RefspecPresent(rc)
            THEN Return(p, "fetched", rc)
            ELSE Goto(p, "fetch")
    /\ UNCHANGED <<config, sdir, tmpdir, path, k, saved, prev, interrupted>>

\* the exit code of the fetch command is handed to the caller
FetchResultIsExitCode(rc) == rc

\* line 255
FetchResult(rc) == 0

\* lines 247-255
Fetch(p) ==
    /\ pc[p] = "fetch"
    /\ \E rc \in InTreeCodes(p) :
         /\ Issue(p, Entry("fetch", 0, rc))
         /\ IF rc = 0
            THEN \E has \in BOOLEAN :
                   /\ path[p].contains => has
                   /\ path' = [path EXCEPT ![p].contains = has]
            ELSE UNCHANGED path
         /\ Return(p, "fetched", FetchResult(rc))
    /\ UNCHANGED <<config, sdir, tmpdir, k, saved, prev, interrupted>>

\* ------------------------------------------------------------------ checkout
\* lines 261-264
CheckoutStart(p) ==
    /\ pc[p] = "fetched"
    /\ retc[p] = 0
    /\ saved' = [saved EXCEPT ![p] = path[p]]
    /\ IF repo.operations_disabled \/ repo.refspec = None
       THEN Return(p, "checked_out", 0)
       ELSE IF ~ctx.force_checkout
            THEN Goto(p, "is_dirty")
            ELSE Goto(p, "resolve")
    /\ UNCHANGED <<config, sdir, tmpdir, path, k, log, prev, interrupted>>

\* the output of is_dirty_cmd is not looked at
DirtySkipsNever(output) == FALSE

\* line 269
DirtySkips(output) == output

\* lines 266-271
IsDirty(p) ==
    /\ pc[p] = "is_dirty"
    /\ \E output \in (IF path[p].exists THEN {path[p].dirty # {}} ELSE BOOLEAN) :
         /\ Issue(p, EntryWith("is_dirty", 0, 0,
                               IF output THEN {"output"} ELSE {}))
         /\ IF DirtySkips(output)
            THEN Return(p, "checked_out", 0)
            ELSE Goto(p, "resolve")
    /\ UNCHANGED <<config, sdir, tmpdir, path, k, saved, prev, interrupted>>

\* the working tree after a checkout of the refspec that exited 0
CheckedOut(tree) ==
    [tree EXCEPT !.head = "refspec", !.patched = FALSE, !.commits = <<>>,
                 !.dirty = IF ctx.force_checkout THEN {} ELSE @]

\* lines 276 and 279: what is checked out, the ref resolve_branch_cmd printed
\* or self.refspec
DesiredRef(output) == IF output THEN "desired_ref=output" ELSE "desired_ref=refspec"

\* every checkout is a branch checkout
BranchAlways(output) == TRUE

\* lines 275-280
Branch(output) == output

\* lines 273-282
Checkout(p) ==
    /\ pc[p] = "resolve"
    /\ \E output \in ResolveOutputs(p) :
       \E rc \in (IF path[p].exists /\ path[p].contains
                  THEN {0} \cup NonZero ELSE NonZero) :
         /\ log' = [log EXCEPT ![p] =
                      @ \o <<EntryWith("resolve_branch", 0, 0,
                                       IF output THEN {"output"} ELSE {}),
                             EntryWith("checkout", 0, rc,
                                       CheckoutOpts(Branch(output))
                                         \cup {DesiredRef(output)})>>]
         /\ IF rc = 0
            THEN /\ path' = [path EXCEPT ![p] = CheckedOut(@)]
                 /\ Return(p, "checked_out", 0)
            ELSE /\ UNCHANGED path
                 /\ (Return(p, "checked_out", 0) \/ Return(p, "idle", rc))
    /\ UNCHANGED <<config, sdir, tmpdir, k, saved, prev, interrupted>>

\* ------------------------------------------------------------ Repo.factory
\* a key declared with an empty value
Falsy == [repo |-> None, path |-> <<"falsy", 0>>]

\* line 106: not patches_dict[p]
IsFalsy(v) == v.path[1] = "falsy"

\* repo_defaults.get('patches', {}).get('repo', None)
default_patch_repo == "r"

\* get_context().config.repo_dict: the names the registry resolves
repo_dict == {"r"}

RECURSIVE SortedSeq(_)
\* sorted(): the keys in ascending order
SortedSeq(S) ==
    IF S = {} THEN <<>>
    ELSE LET m == CHOOSE x \in S : \A y \in S : x <= y
         IN  <<m>> \o SortedSeq(S \ {m})

\* the keys of the dict in the order the manifest declares them
DeclaredKeys(d) == [i \in 1..Len(d) |-> d[i].id]

ValueOf(d, key) == d[CHOOSE i \in 1..Len(d) : d[i].id = key].val

RECURSIVE PatchesFor(_, _)
\* lines 104-117: one entry per key whose value is not falsy
PatchesFor(d, keys) ==
    IF keys = <<>> THEN <<>>
    ELSE LET v == ValueOf(d, Head(keys))
         IN  (IF IsFalsy(v)
              THEN <<>>
              ELSE <<[id |-> Head(keys),
                      repo |-> IF v.repo = None THEN default_patch_repo
                               ELSE v.repo,
                      path |-> v.path]>>)
             \o PatchesFor(d, Tail(keys))

\* the keys are taken as the dict yields them
FactoryPatchesUnsorted(d) == PatchesFor(d, DeclaredKeys(d))

\* lines 103-117
FactoryPatches(d) == PatchesFor(d, SortedSeq({d[i].id : i \in 1..Len(d)}))

\* --------------------------------------------------------- effective_url
RECURSIVE SplitLines(_, _)
\* mirrors.split('\n')
SplitLines(s, cur) ==
    IF s = <<>> THEN <<cur>>
    ELSE IF Head(s) = "\n" THEN <<cur>> \o SplitLines(Tail(s), <<>>)
    ELSE SplitLines(Tail(s), Append(cur, Head(s)))

RECURSIVE Tokens(_, _)
\* mirror.split(): the runs of characters that are not whitespace
Tokens(s, cur) ==
    IF s = <<>> THEN (IF cur = <<>> THEN <<>> ELSE <<cur>>)
    ELSE IF Head(s) \in {" ", "\t", "\n"}
    THEN (IF cur = <<>> THEN <<>> ELSE <<cur>>) \o Tokens(Tail(s), <<>>)
    ELSE Tokens(Tail(s), Append(cur, Head(s)))

\* the expression, of literal characters and '.', matches s from position i on
MatchesAt(expr, s, i) ==
    /\ i + Len(expr) - 1 <= Len(s)
    /\ \A j \in 1..Len(expr) : expr[j] = "." \/ expr[j] = s[i + j - 1]

\* re.match(expr, url): a match at the beginning of the string
ReMatch(expr, s) == MatchesAt(expr, s, 1)

RECURSIVE ReSub(_, _, _, _)
\* re.sub(expr, subst, url): every match, leftmost first, is replaced
ReSub(expr, subst, s, i) ==
    IF i > Len(s) THEN <<>>
    ELSE IF MatchesAt(expr, s, i)
    THEN subst \o ReSub(expr, subst, s, i + Len(expr))
    ELSE <<s[i]>> \o ReSub(expr, subst, s, i + 1)

RECURSIVE RewriteLast(_, _, _)
\* every rule is tried and the last one that matches rewrites the url
RewriteLast(lines, url, found) ==
    IF lines = <<>> THEN found
    ELSE LET t == Tokens(Head(lines), <<>>)
         IN  IF Len(t) = 2 /\ ReMatch(t[1], url)
             THEN RewriteLast(Tail(lines), url, ReSub(t[1], t[2], url, 1))
             ELSE RewriteLast(Tail(lines), url, found)

RECURSIVE Rewrite(_, _, _)
\* lines 68-75; the url is returned when no line is left
Rewrite(lines, url, found) ==
    IF lines = <<>> THEN found
    ELSE LET t == Tokens(Head(lines), <<>>)
         IN  IF Len(t) # 2 THEN Rewrite(Tail(lines), url, found)
             ELSE IF ReMatch(t[1], url) THEN ReSub(t[1], t[2], url, 1)
             ELSE Rewrite(Tail(lines), url, found)

\* lines 66-75
effective_url(url, mirrors) == Rewrite(SplitLines(mirrors, <<>>), url, url)

\* Repo.effective_url read on its own
EffectiveUrl ==
    /\ result = NoResult
    /\ result' = [kind |-> "url", value |-> effective_url(repo.url, environ)]
    /\ UNCHANGED <<ctx, repo, patches_dict, series, active, repo_config, environ,
                   sdir, tmpdir, path, pc, retc, k, log, saved, prev,
                   interrupted>>

\* ------------------------------------------------------------ Repo.factory
\* dict.get(key, default)
Get(d, key, default) == IF key \in d.keys THEN d[key] ELSE default

Uppers == <<"A", "B", "C", "D", "E", "F", "G", "H", "I", "J", "K", "L", "M",
            "N", "O", "P", "Q", "R", "S", "T", "U", "V", "W", "X", "Y", "Z">>

Lowers == <<"a", "b", "c", "d", "e", "f", "g", "h", "i", "j", "k", "l", "m",
            "n", "o", "p", "q", "r", "s", "t", "u", "v", "w", "x", "y", "z">>

\* str.lower()
Lower(s) ==
    [i \in 1..Len(s) |->
       IF \E j \in 1..Len(Uppers) : Uppers[j] = s[i]
       THEN Lowers[CHOOSE j \in 1..Len(Uppers) : Uppers[j] = s[i]]
       ELSE s[i]]

\* the manifest value None
NoneValue == [type |-> "none", text |-> <<>>]

\* str() of a manifest value: None, a bool, an int or a string
Str(v) ==
    IF v.type = "none" THEN <<"N", "o", "n", "e">>
    ELSE IF v.type = "bool"
    THEN (IF v.text = <<"t", "r", "u", "e">> THEN <<"T", "r", "u", "e">>
          ELSE <<"F", "a", "l", "s", "e">>)
    ELSE v.text

\* line 100
Sentinels == {<<"d", "i", "s", "a", "b", "l", "e", "d">>,
              <<"e", "x", "c", "l", "u", "d", "e", "d">>,
              <<"n">>, <<"n", "o">>, <<"0">>, <<"f", "a", "l", "s", "e">>}

\* the value is compared as it is written
LayerExcludedExact(v) == Str(v) \in Sentinels

\* lines 99-100
LayerExcluded(v) == Lower(Str(v)) \in Sentinels

LayerKept(e) == ~LayerExcluded(e.val)

\* lines 97-101
FactoryLayers(cfg) ==
    LET layers_dict == Get(cfg, "layers", <<[id |-> "", val |-> NoneValue]>>)
        kept == SelectSeq(layers_dict, LayerKept)
    IN  [i \in 1..Len(kept) |-> kept[i].id]

\* get_context().kas_work_dir
kas_work_dir == "/work"

\* Repo.get_root_path(repo_fallback_path)
root_path == "/root"

\* the name the factory is called with
repo_name == "name"

\* os.path.isabs
IsAbs(target) == target = "/abs"

\* os.path.join(kas_work_dir, target)
JoinWorkDir(target) ==
    IF target = "rel" THEN "/work/rel"
    ELSE IF target = "name" THEN "/work/name"
    ELSE target

\* lines 128-140
FactoryPath(cfg, url) ==
    LET target == Get(cfg, "path", None)
    IN  IF target = None
        THEN IF url = None THEN root_path ELSE JoinWorkDir(repo_name)
        ELSE IF ~IsAbs(target) THEN JoinWorkDir(target) ELSE target

\* line 124
RefspecMissing(refspec, url) == refspec = None /\ url # None

\* lines 93-153
factory(cfg, d) ==
    LET patches == FactoryPatches(d)
        url == Get(cfg, "url", None)
        typ == Get(cfg, "type", "git")
        refspec == Get(cfg, "refspec", Get(cfg.defaults, "refspec", None))
        target == FactoryPath(cfg, url)
    IN  IF \E i \in 1..Len(patches) : patches[i].repo = None
        THEN [kind |-> "exit", code |-> 1]
        ELSE IF RefspecMissing(refspec, url)
        THEN [kind |-> "exit", code |-> 1]
        ELSE IF typ \notin {"git", "hg"}
        THEN [kind |-> "raise", code |-> NotImplementedError]
        ELSE [kind |-> "repo", typ |-> typ,
              url |-> IF url = None THEN target ELSE url,
              path |-> target, refspec |-> refspec,
              layers |-> FactoryLayers(cfg), _patches |-> patches,
              operations_disabled |-> (url = None)]

\* Repo.factory called on its own
Factory ==
    /\ result = NoResult
    /\ result' = factory(repo_config, patches_dict)
    /\ UNCHANGED <<ctx, repo, patches_dict, series, active, repo_config, environ,
                   sdir, tmpdir, path, pc, retc, k, log, saved, prev,
                   interrupted>>

\* ------------------------------------------------------ patch resolution
\* raised by line 337
FileNotFoundError == 0 - 2

\* the files that exist in the patch directory
DirFiles == {<<"a">>, <<"b">>, <<" ", "a">>, <<"a", "#">>, <<"a", " ", "b">>,
             <<"a", "\t", "#", "b">>,
             <<"f", "o", "o", ".", "p", "a", "t", "c", "h">>,
             <<"b", "a", "r", ".", "p", "a", "t", "c", "h">>}

Whitespace == {" ", "\t", "\n"}

RECURSIVE RStripSet(_, _)
\* str.rstrip(chars)
RStripSet(s, chars) ==
    IF s # <<>> /\ s[Len(s)] \in chars
    THEN RStripSet(SubSeq(s, 1, Len(s) - 1), chars)
    ELSE s

RECURSIVE BeforeMarker(_, _)
\* line.split(' #')[0]: the text before the first " #"
BeforeMarker(s, i) ==
    IF i >= Len(s) THEN s
    ELSE IF s[i] = " " /\ s[i + 1] = "#" THEN SubSeq(s, 1, i - 1)
    ELSE BeforeMarker(s, i + 1)

\* a line of nothing but whitespace is passed over like an empty one
LineSkippedIfStripped(line) ==
    RStripSet(line, Whitespace) = <<>> \/ (line # <<>> /\ line[1] = "#")

\* line 322
LineSkipped(line) == RStripSet(line, {"\n"}) = <<>> \/ (line # <<>> /\ line[1] = "#")

\* line 324
PatchName(line) == RStripSet(BeforeMarker(line, 1), Whitespace)

IsFile(target) == target[1] = "file"

IsSeriesDir(target) == target[1] = "dir"

RECURSIVE ParseSeries(_, _, _, _)
\* lines 318-337
ParseSeries(lines, dir, id, acc) ==
    IF lines = <<>> THEN [ret |-> 0, list |-> acc]
    ELSE IF LineSkipped(Head(lines)) THEN ParseSeries(Tail(lines), dir, id, acc)
    ELSE LET pn == PatchName(Head(lines))
         IN  IF pn = <<>> THEN [ret |-> 1, list |-> <<>>]
             ELSE IF pn \in DirFiles
             THEN ParseSeries(Tail(lines), dir, id,
                              Append(acc, [file |-> <<dir, pn>>, id |-> id]))
             ELSE [ret |-> FileNotFoundError, list |-> <<>>]

RECURSIVE ResolvePatchesLenient(_, _)
\* an entry that does not resolve is passed over and the rest is applied
ResolvePatchesLenient(entries, acc) ==
    IF entries = <<>> THEN [ret |-> 0, list |-> acc]
    ELSE LET patch == Head(entries)
             r == ParseSeries(series, patch.path, patch.id, <<>>)
         IN  IF patch.repo \in repo_dict /\ IsFile(patch.path)
             THEN ResolvePatchesLenient(Tail(entries),
                     Append(acc, [file |-> <<patch.path, <<>>>>, id |-> patch.id]))
             ELSE IF patch.repo \in repo_dict /\ IsSeriesDir(patch.path)
                     /\ r.ret = 0
             THEN ResolvePatchesLenient(Tail(entries), acc \o r.list)
             ELSE ResolvePatchesLenient(Tail(entries), acc)

RECURSIVE ResolvePatches(_, _)
\* lines 296-344
ResolvePatches(entries, acc) ==
    IF entries = <<>> THEN [ret |-> 0, list |-> acc]
    ELSE LET patch == Head(entries)
         IN  IF patch.repo \notin repo_dict THEN [ret |-> 1, list |-> <<>>]
             ELSE IF IsFile(patch.path)
             THEN ResolvePatches(Tail(entries),
                     Append(acc, [file |-> <<patch.path, <<>>>>, id |-> patch.id]))
             ELSE IF IsSeriesDir(patch.path)
             THEN LET r == ParseSeries(series, patch.path, patch.id, <<>>)
                  IN  IF r.ret # 0 THEN r
                      ELSE ResolvePatches(Tail(entries), acc \o r.list)
             ELSE [ret |-> 1, list |-> <<>>]

my_patches == ResolvePatches(repo._patches, <<>>)

\* the series file of one patch directory read on its own
ReadSeries ==
    /\ result = NoResult
    /\ LET r == ParseSeries(series, <<"dir", 1>>, 1, <<>>)
       IN  result' = [kind |-> "series", ret |-> r.ret, list |-> r.list]
    /\ UNCHANGED <<ctx, repo, patches_dict, series, active, repo_config, environ,
                   sdir, tmpdir, path, pc, retc, k, log, saved, prev,
                   interrupted>>

\* ------------------------------------------------------ apply_patches_async
\* the patch files whose changes the working tree holds
Content(tree) ==
    tree.dirty \cup UNION {tree.commits[i] : i \in 1..Len(tree.commits)}

\* only a repository without patches is left alone
PatchesSkippedWithoutPatches == repo._patches = <<>>

\* line 288
PatchesSkipped == repo.operations_disabled \/ repo._patches = <<>>

\* lines 288-289
ApplyStart(p) ==
    /\ pc[p] = "checked_out"
    /\ saved' = [saved EXCEPT ![p] = path[p]]
    /\ IF PatchesSkipped
       THEN Return(p, "patched", 0)
       ELSE Goto(p, "prepare")
    /\ UNCHANGED <<config, sdir, tmpdir, path, k, log, prev, interrupted>>

\* lines 291-346
Prepare(p) ==
    /\ pc[p] = "prepare"
    /\ \E rc \in InTreeCodes(p) :
         /\ Issue(p, Entry("prepare_patches", 0, rc))
         /\ IF rc # 0
            THEN Return(p, "patched", rc) /\ UNCHANGED <<path, k>>
            ELSE /\ path' = [path EXCEPT ![p].patched = TRUE]
                 /\ IF my_patches.ret # 0
                    THEN Return(p, "patched", my_patches.ret) /\ UNCHANGED k
                    ELSE IF my_patches.list = <<>>
                    THEN Return(p, "patched", 0) /\ UNCHANGED k
                    ELSE Goto(p, "apply") /\ k' = [k EXCEPT ![p] = 1]
    /\ UNCHANGED <<config, sdir, tmpdir, saved, prev, interrupted>>

\* a patch that does not apply is only logged
ApplyFailedNever(rc) == FALSE

\* line 349
ApplyFailed(rc) == rc # 0

\* lines 347-358
Apply(p) ==
    /\ pc[p] = "apply"
    /\ LET patch == my_patches.list[k[p]]
           there == patch.file \in Content(path[p])
       IN  \E rc \in (IF there THEN NonZero ELSE InTreeCodes(p)) :
             /\ Issue(p, PatchEntry("apply", k[p], rc,
                                    IF there THEN {"applied_before"} ELSE {},
                                    patch))
             /\ IF ApplyFailed(rc)
                THEN Return(p, "patched", 1) /\ UNCHANGED path
                ELSE /\ Goto(p, "add")
                     /\ path' = [path EXCEPT
                                   ![p].dirty = IF rc = 0 THEN @ \cup {patch.file}
                                                ELSE @]
    /\ UNCHANGED <<config, sdir, tmpdir, k, saved, prev, interrupted>>

\* lines 360-366
Add(p) ==
    /\ pc[p] = "add"
    /\ \E rc \in InTreeCodes(p) :
         /\ Issue(p, Entry("add", k[p], rc))
         /\ IF rc # 0 THEN Return(p, "patched", 1) ELSE Goto(p, "commit")
    /\ UNCHANGED <<config, sdir, tmpdir, path, k, saved, prev, interrupted>>

\* line 346: the loop takes the next element of my_patches
NextPatch(i) == i + 1

\* lines 368-376
Commit(p) ==
    /\ pc[p] = "commit"
    /\ \E rc \in (IF path[p].dirty = {} THEN NonZero ELSE InTreeCodes(p)) :
         /\ Issue(p, Entry("commit", k[p], rc))
         /\ IF rc # 0
            THEN Return(p, "patched", 1) /\ UNCHANGED <<path, k>>
            ELSE /\ path' = [path EXCEPT
                               ![p].commits = Append(@, path[p].dirty),
                               ![p].dirty = {}]
                 /\ IF NextPatch(k[p]) > Len(my_patches.list)
                    THEN Return(p, "patched", 0) /\ UNCHANGED k
                    ELSE Goto(p, "apply") /\ k' = [k EXCEPT ![p] = NextPatch(@)]
    /\ UNCHANGED <<config, sdir, tmpdir, saved, prev, interrupted>>

\* ------------------------------------------------------------- cancellation
\* the outer operation is cancelled before the next command is run
Interrupt(p) ==
    /\ pc[p] \in Awaiting
    /\ pc' = [pc EXCEPT ![p] = "idle"]
    /\ tmpdir' = [tmpdir EXCEPT ![p] = "absent"]
    /\ interrupted' = [interrupted EXCEPT ![p] = TRUE]
    /\ UNCHANGED <<config, sdir, path, retc, k, log, saved, prev>>

\* ------------------------------------------------------------ specification
Contexts == [kas_repo_ref_dir : BOOLEAN, update : BOOLEAN,
             force_checkout : BOOLEAN]

Ids == 1..MaxPatches

\* the values a patch key can have in the manifest
Values == {Falsy} \cup [repo : {None, "r", "gone"},
                        path : {<<"file", 1>>, <<"file", 2>>, <<"dir", 1>>,
                                <<"none", 1>>}]

\* dicts: every key once, in any order of declaration
Dicts(ids, vals) ==
    {d \in UNION {[1..n -> [id : ids, val : vals]] : n \in 0..Cardinality(ids)} :
       \A i \in 1..Len(d) : \A j \in 1..Len(d) : d[i].id = d[j].id => i = j}

\* manifests of at most two patch entries, each a patch file of its own
FileDicts ==
    {d \in Dicts({1, 2}, [repo : {"r"}, path : {<<"file", 1>>, <<"file", 2>>}]) :
       \A i \in 1..Len(d) : d[i].val.path[2] = d[i].id}

\* series files: lines of the characters a, c, space, # and newline
SeriesFiles ==
    { <<>>,
      << <<"a", "\n">>, <<"#", " ", "c", "\n">>, <<"\n">>,
         <<"b", " ", "#", "c", "\n">> >>,
      << <<"b", "\n">>, <<"a">> >>,
      << <<"a", "\n">>, <<" ", "\n">> >>,
      << <<"a", "\n">>, <<"c", "\n">> >> }

Refspecs == {None, "r"}

Repos(d) ==
    {r \in [typ : {"git", "hg"}, operations_disabled : BOOLEAN,
            refspec : Refspecs, _patches : {FactoryPatches(d)}] :
       r.refspec = None => r.operations_disabled}

InitRuns ==
    /\ tmpdir = [p \in Procs |-> "absent"]
    /\ retc = [p \in Procs |-> 0]
    /\ k = [p \in Procs |-> 0]
    /\ log = [p \in Procs |-> <<>>]
    /\ prev = [p \in Procs |-> "none"]
    /\ interrupted = [p \in Procs |-> FALSE]
    /\ repo_config = NoConfig
    /\ environ = <<>>
    /\ result = NoResult

InitCache ==
    sdir \in (IF ctx.kas_repo_ref_dir
              THEN {"absent", IF repo.typ = "git" THEN "bare" ELSE "empty"}
              ELSE {"absent"})

\* one repository synchronized by one driver: fetch, checkout, patches
Init ==
    /\ ctx \in Contexts
    /\ patches_dict \in FileDicts
    /\ repo \in Repos(patches_dict)
    /\ series = <<>>
    /\ InitCache
    /\ path = [p \in Procs |-> NoTree]
    /\ saved = path
    /\ InitRuns
    /\ pc = [p \in Procs |-> "idle"]
    /\ active = {1}

Next ==
    \/ \E p \in Procs : FetchStart(p)
    \/ \E p \in Procs : CacheClone(p)
    \/ \E p \in Procs : CacheRename(p)
    \/ \E p \in Procs : CacheCleanup(p)
    \/ \E p \in Procs : FetchClone(p)
    \/ \E p \in Procs : SetRemoteUrl(p)
    \/ \E p \in Procs : ContainsRefspec(p)
    \/ \E p \in Procs : Fetch(p)
    \/ \E p \in Procs : CheckoutStart(p)
    \/ \E p \in Procs : IsDirty(p)
    \/ \E p \in Procs : Checkout(p)
    \/ \E p \in Procs : ApplyStart(p)
    \/ \E p \in Procs : Prepare(p)
    \/ \E p \in Procs : Apply(p)
    \/ \E p \in Procs : Add(p)
    \/ \E p \in Procs : Commit(p)
    \/ \E p \in Procs : Interrupt(p)

Spec == Init /\ [][Next]_vars

\* two fetch_async runs for the same qualified_name sharing one cache root
InitRace ==
    /\ ctx \in Contexts
    /\ patches_dict = <<>>
    /\ repo \in Repos(patches_dict)
    /\ series = <<>>
    /\ InitCache
    /\ path = [p \in Procs |-> NoTree]
    /\ saved = path
    /\ InitRuns
    /\ pc = [p \in Procs |-> "idle"]
    /\ active = Procs

NextRace ==
    \/ \E p \in Procs : FetchStart(p)
    \/ \E p \in Procs : CacheClone(p)
    \/ \E p \in Procs : CacheRename(p)
    \/ \E p \in Procs : CacheCleanup(p)
    \/ \E p \in Procs : FetchClone(p)
    \/ \E p \in Procs : SetRemoteUrl(p)
    \/ \E p \in Procs : ContainsRefspec(p)
    \/ \E p \in Procs : Fetch(p)

SpecRace == InitRace /\ [][NextRace]_vars

\* apply_patches_async on a working tree that fetch and checkout prepared
InitPatches ==
    /\ ctx \in {c \in Contexts : ~c.kas_repo_ref_dir /\ ~c.update
                                  /\ ~c.force_checkout}
    /\ patches_dict \in Dicts(Ids, Values)
    /\ repo \in {r \in Repos(patches_dict) : r.refspec # None}
    /\ series \in SeriesFiles
    /\ sdir = "absent"
    /\ path = [p \in Procs |->
                 IF p = 1
                 THEN [Cloned(TRUE) EXCEPT !.head = "refspec"]
                 ELSE NoTree]
    /\ saved = path
    /\ InitRuns
    /\ pc = [p \in Procs |-> IF p = 1 THEN "checked_out" ELSE "idle"]
    /\ active = {1}

NextPatches ==
    \/ \E p \in Procs : ApplyStart(p)
    \/ \E p \in Procs : Prepare(p)
    \/ \E p \in Procs : Apply(p)
    \/ \E p \in Procs : Add(p)
    \/ \E p \in Procs : Commit(p)

SpecPatches == InitPatches /\ [][NextPatches]_vars

\* what a manifest can give a layer as its value
LayerValues ==
    {NoneValue}
      \cup [type : {"bool"}, text : {<<"t", "r", "u", "e">>,
                                     <<"f", "a", "l", "s", "e">>}]
      \cup [type : {"int"}, text : {<<"0">>, <<"1">>}]
      \cup [type : {"str"},
            text : {<<>>, <<"n">>, <<"N">>, <<"n", "o">>, <<"N", "o">>,
                    <<"n", "O">>, <<"N", "O">>, <<"0">>, <<"1">>, <<"y">>,
                    <<"f", "a", "l", "s", "e">>, <<"F", "a", "l", "s", "e">>,
                    <<"F", "A", "L", "S", "E">>, <<"t", "r", "u", "e">>,
                    <<"d", "i", "s", "a", "b", "l", "e", "d">>,
                    <<"D", "i", "s", "a", "b", "l", "e", "d">>,
                    <<"D", "I", "S", "A", "B", "L", "E", "D">>,
                    <<"e", "x", "c", "l", "u", "d", "e", "d">>,
                    <<"E", "X", "C", "L", "U", "D", "E", "D">>,
                    <<"e", "n", "a", "b", "l", "e", "d">>,
                    <<"n", "o", "n", "e">>, <<"n", "o", " ">>,
                    <<"n", "o", "t">>, <<"o", "f", "f">>, <<"0", "0">>}]

LayerNames == {"meta-a", "meta-b"}

RepoDefaults ==
    {[keys |-> {}, refspec |-> None]}
      \cup [keys : {{"refspec"}}, refspec : {None, "", "d"}]

\* repository records; a key that is not in keys has no value
RepoConfigs(keysets, layerdicts, defaults) ==
    {c \in [keys : keysets, url : {None, "u"}, refspec : {None, "", "r"},
            type : {"git", "hg", "svn"}, path : {None, "rel", "/abs"},
            layers : layerdicts, defaults : defaults] :
       /\ "url" \notin c.keys => c.url = None
       /\ "refspec" \notin c.keys => c.refspec = None
       /\ "type" \notin c.keys => c.type = "git"
       /\ "path" \notin c.keys => c.path = None
       /\ "layers" \notin c.keys => c.layers = <<>>}

\* Repo.factory on its own: records that differ in url, refspec, type and
\* path, and records that differ in their layers
InitFactory ==
    /\ repo_config \in
          RepoConfigs(SUBSET {"url", "refspec", "type", "path", "layers"},
                      {<<>>, <<[id |-> "meta-a", val |-> NoneValue]>>},
                      RepoDefaults)
          \cup RepoConfigs({{"layers"}, {"url", "refspec", "layers"}},
                           Dicts(LayerNames, LayerValues),
                           {[keys |-> {}, refspec |-> None]})
    /\ patches_dict \in FileDicts
    /\ ctx = [kas_repo_ref_dir |-> FALSE, update |-> FALSE,
              force_checkout |-> FALSE]
    /\ repo = [typ |-> "git", operations_disabled |-> TRUE, refspec |-> None,
               _patches |-> <<>>]
    /\ series = <<>>
    /\ sdir = "absent"
    /\ path = [p \in Procs |-> NoTree]
    /\ saved = path
    /\ tmpdir = [p \in Procs |-> "absent"]
    /\ retc = [p \in Procs |-> 0]
    /\ k = [p \in Procs |-> 0]
    /\ log = [p \in Procs |-> <<>>]
    /\ prev = [p \in Procs |-> "none"]
    /\ interrupted = [p \in Procs |-> FALSE]
    /\ pc = [p \in Procs |-> "idle"]
    /\ active = {}
    /\ environ = <<>>
    /\ result = NoResult

NextFactory == Factory

\* what a line of a series file can hold before its newline
LineTexts ==
    {<<"a">>, <<"b">>, <<"c">>, <<" ">>, <<"#">>, <<"\t">>, <<" ", " ">>,
     <<"a", " ">>, <<" ", "a">>, <<"a", "#">>, <<"#", "a">>, <<" ", "#">>,
     <<"#", " ">>, <<"#", "#">>, <<"a", "\t">>, <<"a", " ", "#">>,
     <<"a", "#", " ">>, <<"a", " ", " ">>, <<" ", "#", " ">>, <<" ", "#", "a">>,
     <<"a", " ", "b">>, <<"a", " ", "#", "b">>, <<"a", " ", "#", " ">>,
     <<"a", "\t", "#", "b">>, <<"a", " ", " ", "#", "b">>,
     <<"a", " ", "#", "b", " ", "#", "a">>}

\* the lines a file yields: all end in a newline, the last one need not
EndedLines == {t \o <<"\n">> : t \in LineTexts \cup {<<>>}}

\* foo.patch, # comment, an empty line, bar.patch # note
ExampleSeries ==
    << <<"f", "o", "o", ".", "p", "a", "t", "c", "h", "\n">>,
       <<"#", " ", "c", "o", "m", "m", "e", "n", "t", "\n">>,
       <<"\n">>,
       <<"b", "a", "r", ".", "p", "a", "t", "c", "h", " ", "#", " ", "n", "o",
         "t", "e", "\n">> >>

AllSeries ==
    {f \in UNION {[1..n -> EndedLines \cup LineTexts] : n \in 0..MaxLines} :
       \A i \in 1..(Len(f) - 1) : f[i] \in EndedLines}

\* the series file of a patch directory, read on its own
InitSeries ==
    /\ series \in AllSeries \cup SeriesFiles \cup {ExampleSeries}
    /\ repo_config = NoConfig
    /\ patches_dict = <<>>
    /\ ctx = [kas_repo_ref_dir |-> FALSE, update |-> FALSE,
              force_checkout |-> FALSE]
    /\ repo = [typ |-> "git", operations_disabled |-> TRUE, refspec |-> None,
               _patches |-> <<>>]
    /\ sdir = "absent"
    /\ path = [p \in Procs |-> NoTree]
    /\ saved = path
    /\ tmpdir = [p \in Procs |-> "absent"]
    /\ retc = [p \in Procs |-> 0]
    /\ k = [p \in Procs |-> 0]
    /\ log = [p \in Procs |-> <<>>]
    /\ prev = [p \in Procs |-> "none"]
    /\ interrupted = [p \in Procs |-> FALSE]
    /\ pc = [p \in Procs |-> "idle"]
    /\ active = {}
    /\ environ = <<>>
    /\ result = NoResult

NextSeries == ReadSeries

SpecSeries == InitSeries /\ [][NextSeries]_vars

SpecFactory == InitFactory /\ [][NextFactory]_vars

\* lines of KAS_PREMIRRORS: rules, and lines of one, three or no token
MirrorLines ==
    {<<"a", " ", "c">>, <<"b", " ", "c">>, <<"a", "b", " ", "d">>,
     <<".", " ", "d">>, <<"a", ".", " ", "c", "d">>, <<".", "b", " ", "c">>,
     <<" ", "a", " ", " ", "d", " ">>, <<"a", "\t", "c", "c">>,
     <<"b", "a", " ", "b">>,
     <<>>, <<" ">>, <<"a">>, <<"a", "c">>, <<"a", " ", "c", " ", "d">>,
     <<".", " ", "d", " ", "a", " ", "c">>}

Urls == {<<"a">>, <<"b">>, <<"a", "b">>, <<"b", "a">>, <<"a", "a", "b">>,
         <<"c", "a", "b">>, <<"a", "b", "a", "b">>}

RECURSIVE JoinLines(_)
\* the value of the variable: its lines with a newline between them
JoinLines(lines) ==
    IF lines = <<>> THEN <<>>
    ELSE IF Len(lines) = 1 THEN lines[1]
    ELSE lines[1] \o <<"\n">> \o JoinLines(Tail(lines))

\* Repo.effective_url on its own
InitMirrors ==
    /\ environ \in {JoinLines(l) :
                      l \in UNION {[1..n -> MirrorLines] : n \in 0..MaxRules}}
    /\ repo \in [typ : {"git"}, operations_disabled : {FALSE}, refspec : {"r"},
                  _patches : {<<>>}, url : Urls]
    /\ repo_config = NoConfig
    /\ patches_dict = <<>>
    /\ ctx = [kas_repo_ref_dir |-> FALSE, update |-> FALSE,
              force_checkout |-> FALSE]
    /\ series = <<>>
    /\ sdir = "absent"
    /\ path = [p \in Procs |-> NoTree]
    /\ saved = path
    /\ tmpdir = [p \in Procs |-> "absent"]
    /\ retc = [p \in Procs |-> 0]
    /\ k = [p \in Procs |-> 0]
    /\ log = [p \in Procs |-> <<>>]
    /\ prev = [p \in Procs |-> "none"]
    /\ interrupted = [p \in Procs |-> FALSE]
    /\ pc = [p \in Procs |-> "idle"]
    /\ active = {}
    /\ result = NoResult

NextMirrors == EffectiveUrl

SpecMirrors == InitMirrors /\ [][NextMirrors]_vars

\* ------------------------------------------------------------------ claims
Has(p, cmd, codes) ==
    \E i \in 1..Len(log[p]) : log[p][i].cmd = cmd /\ log[p][i].rc \in codes

\* the run is beyond the block of lines 190-208
PastCache(p) ==
    pc[p] \in {"wt_clone", "set_url", "contains", "fetch", "fetched"}

\* the run found no cache entry and its cache clone exited 0
Raced(p) == Has(p, "clone_ref", {0})

\* C1: two fetch_async runs for one qualified_name that both found the cache
\* missing and whose cache clones both exited 0: neither run returns from the
\* cache block (a run that returned has gone on to the later commands), and
\* once both are beyond the block the canonical directory exists and no
\* temporary directory is left.
C1_CacheRace ==
    /\ \A p \in Procs :
         (Raced(p) /\ pc[p] = "fetched") => Issued(p, "set_remote_url")
    /\ \A p \in Procs : \A q \in Procs \ {p} :
         (Raced(p) /\ Raced(q) /\ PastCache(p) /\ PastCache(q)) =>
            /\ sdir # "absent"
            /\ tmpdir[p] = "absent"
            /\ tmpdir[q] = "absent"

C1_Witness ==
    /\ repo.typ = "git"
    /\ Raced(1) /\ Raced(2)
    /\ pc[1] = "fetched" /\ pc[2] = "fetched"
    /\ retc[1] = 0 /\ retc[2] = 0
    /\ sdir = "bare"

\* C2: a fetch_async run that directly follows a run in which containsRefspec
\* exited 0 issues, with the update flag unset, no clone and no fetch command
\* and returns 0 whenever its own containsRefspec is reached; with the update
\* flag set containsRefspec is never issued and every run that gets past
\* setRemoteURL issues the fetch command.
C2_FetchIdempotent ==
    \A p \in Procs :
      /\ (prev[p] = "contained" /\ ~ctx.update) =>
            /\ ~Issued(p, "clone_ref")
            /\ ~Issued(p, "clone")
            /\ ~Issued(p, "fetch")
            /\ (pc[p] = "fetched" /\ ~Has(p, "set_remote_url", NonZero)) =>
                  (retc[p] = 0 /\ Has(p, "contains_refspec", {0}))
      /\ ctx.update =>
            /\ ~Issued(p, "contains_refspec")
            /\ (pc[p] = "fetched"
                  /\ Has(p, "set_remote_url", {0, NotImplementedError})) =>
                  Issued(p, "fetch")

C2_Witness ==
    /\ prev[1] = "contained" /\ ~ctx.update
    /\ pc[1] = "fetched" /\ retc[1] = 0
    /\ log[1] = <<Entry("set_remote_url", 0, 0), Entry("contains_refspec", 0, 0)>>

\* C7 (as claimed): after a working-tree clone that exited non-zero the run
\* issues no setRemoteURL, containsRefspec or fetch command and returns the
\* clone's exit code.
C7_CloneFailureAborts ==
    \A p \in Procs : \A rc \in NonZero :
      Has(p, "clone", {rc}) =>
        /\ ~Issued(p, "set_remote_url")
        /\ ~Issued(p, "contains_refspec")
        /\ ~Issued(p, "fetch")
        /\ pc[p] = "fetched" => retc[p] = rc

\* C8: a cache clone that exited non-zero is the only command of its run, the
\* run has returned that exit code, its temporary directory is gone and the
\* canonical cache directory was not created.
C8_CacheCloneFailure ==
    \A p \in Procs : \A rc \in NonZero :
      Has(p, "clone_ref", {rc}) =>
        /\ pc[p] = "fetched"
        /\ retc[p] = rc
        /\ log[p] = <<Entry("clone_ref", 0, rc)>>
        /\ tmpdir[p] = "absent"
        /\ sdir = "absent"

C8_Witness ==
    /\ pc[1] = "fetched" /\ retc[1] = 2
    /\ log[1] = <<Entry("clone_ref", 0, 2)>>

\* C9: a run with a refspec that got past setRemoteURL (exit 0 or unsupported)
\* has returned 0, whatever containsRefspec and the fetch command exited with.
C9_FetchNeverFatal ==
    \A p \in Procs :
      (pc[p] = "fetched" /\ repo.refspec # None
         /\ Has(p, "set_remote_url", {0, NotImplementedError})) => retc[p] = 0

C9_Witness ==
    /\ pc[1] = "fetched" /\ retc[1] = 0
    /\ Has(1, "fetch", NonZero)

\* C10: setRemoteURL is attempted at most once per run and exactly once in
\* every finished run with operations enabled that the cache clone did not
\* abort; unsupported (Mercurial) lets the run go on to the refspec steps, any
\* other non-zero exit code is returned with no containsRefspec or fetch.
C10_RemoteUrlReset ==
    \A p \in Procs :
      /\ Count(p, "set_remote_url") <= 1
      /\ (pc[p] = "fetched" /\ ~repo.operations_disabled
            /\ ~Has(p, "clone_ref", NonZero)) => Count(p, "set_remote_url") = 1
      /\ (pc[p] = "fetched" /\ Has(p, "set_remote_url", {NotImplementedError})) =>
            (Issued(p, "contains_refspec") \/ Issued(p, "fetch"))
      /\ \A rc \in NonZero :
           Has(p, "set_remote_url", {rc}) =>
             /\ pc[p] = "fetched" /\ retc[p] = rc
             /\ ~Issued(p, "contains_refspec")
             /\ ~Issued(p, "fetch")

C10_Witness ==
    /\ pc[1] = "fetched" /\ retc[1] = 2
    /\ path[1].exists
    /\ ~Issued(1, "clone")
    /\ Has(1, "set_remote_url", {2})

\* the commands of the patch loop, in the order they were issued
IsLoopCmd(e) == e.cmd \in {"apply", "add", "commit"}

LoopCmds(p) == SelectSeq(log[p], IsLoopCmd)

IsApply(e) == e.cmd = "apply"

\* the patches handed to applyPatchFile, in the order they were handed over
AppliedPatches(p) ==
    LET a == SelectSeq(log[p], IsApply) IN [i \in 1..Len(a) |-> a[i].patch]

\* the j-th command of the loop belongs to patch (j-1) \div 3 + 1
LoopShape(p) ==
    LET c == LoopCmds(p)
    IN  \A j \in 1..Len(c) :
          /\ c[j].cmd = <<"apply", "add", "commit">>[((j - 1) % 3) + 1]
          /\ c[j].arg = ((j - 1) \div 3) + 1
          /\ j < Len(c) => c[j].rc = 0

\* one commit for each of the first n resolved patches, on top of what was there
CommitsFor(p, n) ==
    path[p].commits =
        saved[p].commits \o [i \in 1..n |-> {my_patches.list[i].file}]

\* C3: when applying the k-th resolved patch exits non-zero,
\* apply_patches_async has returned failure, the loop issued apply, add and
\* commit (all exiting 0) for each of the k-1 earlier patches and nothing
\* after the failed apply, and the working tree holds the commits it had plus
\* exactly those k-1.
C3_StopsAtFirstFailure ==
    \A p \in Procs : \A n \in 1..Len(LoopCmds(p)) :
      LET c == LoopCmds(p)
      IN  (c[n].cmd = "apply" /\ c[n].rc # 0) =>
            /\ pc[p] = "patched"
            /\ retc[p] = 1
            /\ n = Len(c)
            /\ LoopShape(p)
            /\ Count(p, "commit") = c[n].arg - 1
            /\ Count(p, "add") = c[n].arg - 1
            /\ CommitsFor(p, c[n].arg - 1)
            /\ path[p].dirty = saved[p].dirty

C3_Witness ==
    /\ Len(my_patches.list) = 3
    /\ pc[1] = "patched" /\ retc[1] = 1
    /\ Len(LoopCmds(1)) = 4
    /\ LoopCmds(1)[4].cmd = "apply" /\ LoopCmds(1)[4].rc # 0
    /\ Len(path[1].commits) = 1

\* position of a key in the manifest
DeclaredAt(id) == CHOOSE i \in 1..Len(patches_dict) : patches_dict[i].id = id

\* first line of the series file that names the patch file
LineOf(name) ==
    CHOOSE l \in 1..Len(series) :
      /\ ~LineSkipped(series[l]) /\ PatchName(series[l]) = name
      /\ \A m \in 1..(l - 1) :
           LineSkipped(series[m]) \/ PatchName(series[m]) # name

\* patches of one series directory are taken in the order of its lines
SeriesOrder(p) ==
    LET a == AppliedPatches(p)
    IN  \A i \in 1..Len(a) : \A j \in (i + 1)..Len(a) :
          (a[i].id = a[j].id /\ a[i].file # a[j].file) =>
             LineOf(a[i].file[2]) < LineOf(a[j].file[2])

\* the keys of the manifest whose value is not empty
DeclaredIds ==
    {patches_dict[i].id : i \in {j \in 1..Len(patches_dict) :
                                   ~IsFalsy(patches_dict[j].val)}}

\* success means every resolved patch was applied, staged and committed
SuccessIsComplete(p) ==
    (pc[p] = "patched" /\ retc[p] = 0 /\ Issued(p, "prepare_patches")) =>
       /\ Len(LoopCmds(p)) = 3 * Len(my_patches.list)
       /\ \A j \in 1..Len(LoopCmds(p)) : LoopCmds(p)[j].rc = 0
       /\ CommitsFor(p, Len(my_patches.list))
       /\ path[p].dirty = saved[p].dirty
       /\ \A id \in DeclaredIds :
            IsFile(ValueOf(patches_dict, id).path) =>
               \E i \in 1..Len(AppliedPatches(p)) : AppliedPatches(p)[i].id = id

\* C4 (as claimed): apply, add, commit per patch with no overlap, the patches
\* taken in the order the manifest declares their entries, success only if
\* every patch was applied, staged and committed.
C4_DeclarationOrder ==
    \A p \in Procs :
      /\ LoopShape(p)
      /\ LET a == AppliedPatches(p)
         IN  \A i \in 1..Len(a) : \A j \in (i + 1)..Len(a) :
               DeclaredAt(a[i].id) <= DeclaredAt(a[j].id)
      /\ SeriesOrder(p)
      /\ SuccessIsComplete(p)

\* C4 (amended): apply, add, commit per patch with no overlap, the patches
\* taken in ascending order of the ids of their entries (and in line order
\* within a series file), success only if every patch was applied, staged
\* and committed.
C4_IdOrder ==
    \A p \in Procs :
      /\ LoopShape(p)
      /\ LET a == AppliedPatches(p)
         IN  \A i \in 1..Len(a) : \A j \in (i + 1)..Len(a) : a[i].id <= a[j].id
      /\ SeriesOrder(p)
      /\ SuccessIsComplete(p)

C4_Witness ==
    /\ Len(patches_dict) = 2
    /\ patches_dict[1].id > patches_dict[2].id
    /\ IsSeriesDir(patches_dict[1].val.path)
    /\ pc[1] = "patched" /\ retc[1] = 0
    /\ Len(AppliedPatches(1)) = 3
    /\ Len(path[1].commits) = 3

\* C5: without forceCheckout, once isDirty printed something checkout issues
\* neither resolveBranch nor the checkout command, and it has returned
\* normally with the working tree as it found it.
C5_DirtyTreeKept ==
    \A p \in Procs :
      (\E i \in 1..Len(log[p]) :
          log[p][i].cmd = "is_dirty" /\ "output" \in log[p][i].opts) =>
        /\ ~ctx.force_checkout
        /\ ~Issued(p, "resolve_branch")
        /\ ~Issued(p, "checkout")
        /\ pc[p] # "resolve"
        /\ pc[p] = "checked_out" => (retc[p] = 0 /\ path[p] = saved[p])

C5_Witness ==
    /\ pc[1] = "checked_out"
    /\ path[1].exists /\ path[1].dirty # {}
    /\ \E i \in 1..Len(log[1]) :
         log[1][i].cmd = "is_dirty" /\ "output" \in log[1][i].opts

\* no command of the synchronization failed for a reason outside the
\* working tree (a patch that the tree already holds cannot be applied)
NoOutsideFailure(p) ==
    \A i \in 1..Len(log[p]) :
      \/ log[p][i].rc \in {0, NotImplementedError}
      \/ log[p][i].cmd = "contains_refspec"
      \/ "applied_before" \in log[p][i].opts

\* the state an uninterrupted synchronization ends in
Converged(p) ==
    /\ path[p].exists
    /\ path[p].head = "refspec"
    /\ path[p].dirty = {}
    /\ path[p].commits =
         [i \in 1..Len(my_patches.list) |-> {my_patches.list[i].file}]
    /\ my_patches.list # <<>> => path[p].patched

\* C6 (as claimed): a synchronization that runs fetch, checkout and
\* patch-application to the end after an earlier one was cancelled returns
\* success and leaves the working tree cloned, the refspec checked out and
\* exactly one commit per declared patch.
C6_Reentrant ==
    \A p \in Procs :
      (interrupted[p] /\ pc[p] = "patched" /\ NoOutsideFailure(p)) =>
         (retc[p] = 0 /\ Converged(p))

\* C11: with operations disabled no step of fetch_async, checkout or
\* apply_patches_async issues a command, creates, removes or changes the cache
\* directory, a temporary directory or the working tree, and each function
\* returns success, whatever the refspec, the patches and the flags are.
C11_LocalOnlyUntouched ==
    [][repo.operations_disabled =>
         /\ log' = [p \in Procs |-> <<>>]
         /\ sdir' = sdir
         /\ tmpdir' = tmpdir
         /\ path' = path
         /\ \A p \in Procs : pc'[p] \in Returned /\ retc'[p] = 0]_vars

C11_Witness ==
    /\ repo.operations_disabled
    /\ repo.refspec # None
    /\ repo._patches # <<>>
    /\ ctx.kas_repo_ref_dir /\ ctx.update /\ ctx.force_checkout
    /\ pc[1] = "patched" /\ retc[1] = 0

\* a kept line of the series file gives no name or names no existing file
BadSeriesLine(l) ==
    /\ ~LineSkipped(series[l])
    /\ (PatchName(series[l]) = <<>> \/ PatchName(series[l]) \notin DirFiles)

\* the entry cannot be turned into patch files
Unresolvable(patch) ==
    \/ patch.repo \notin repo_dict
    \/ ~IsFile(patch.path) /\ ~IsSeriesDir(patch.path)
    \/ IsSeriesDir(patch.path) /\ \E l \in 1..Len(series) : BadSeriesLine(l)

\* C12: when some patch entry of a repository with operations enabled does
\* not resolve (unknown repo, path neither a file nor a series directory, a
\* series line without a name, a series name that is no file),
\* apply_patches_async issues no applyPatchFile, add or commit command, also
\* not for the entries before the failing one, and it does not return
\* success.
C12_ResolveBeforeApply ==
    \A p \in Procs :
      (~repo.operations_disabled
         /\ \E i \in 1..Len(repo._patches) : Unresolvable(repo._patches[i])) =>
        /\ ~Issued(p, "apply")
        /\ ~Issued(p, "add")
        /\ ~Issued(p, "commit")
        /\ pc[p] \notin {"apply", "add", "commit"}
        /\ pc[p] = "patched" => retc[p] # 0

C12_Witness ==
    /\ ~repo.operations_disabled
    /\ Len(repo._patches) = 2
    /\ ~Unresolvable(repo._patches[1])
    /\ Unresolvable(repo._patches[2])
    /\ pc[1] = "patched"
    /\ log[1] = <<Entry("prepare_patches", 0, 0)>>

\* neither None nor the empty string
Usable(refspec) == refspec \notin {None, ""}

\* C13 (as claimed): a Repository the factory produced that is not local-only
\* has a non-empty refspec, and a record with a url and no usable refspec,
\* neither its own nor one of the defaults, fails construction.
C13_FactoryRefspec ==
    /\ (result.kind = "repo" /\ ~result.operations_disabled) =>
          Usable(result.refspec)
    /\ (result # NoResult
          /\ Get(repo_config, "url", None) # None
          /\ ~Usable(Get(repo_config, "refspec", None))
          /\ ~Usable(Get(repo_config.defaults, "refspec", None))) =>
          result.kind # "repo"

\* the text is the word, whatever the case of its letters
SameWord(text, word) ==
    /\ Len(text) = Len(word)
    /\ \A i \in 1..Len(word) :
         \/ text[i] = word[i]
         \/ \E j \in 1..Len(Lowers) : Lowers[j] = word[i] /\ Uppers[j] = text[i]

\* disabled, excluded, n, no, 0, false
DisablingWords ==
    {<<"d", "i", "s", "a", "b", "l", "e", "d">>,
     <<"e", "x", "c", "l", "u", "d", "e", "d">>,
     <<"n">>, <<"n", "o">>, <<"0">>, <<"f", "a", "l", "s", "e">>}

Disabling(v) == \E w \in DisablingWords : SameWord(Str(v), w)

\* the layers the repository record declares, in the order it declares them
DeclaredLayers ==
    IF "layers" \in repo_config.keys THEN repo_config.layers
    ELSE <<[id |-> "", val |-> NoneValue]>>

\* C16: the layers of a Repository the factory produced are exactly the
\* declared layers whose value is not, in any case of its letters, one of
\* disabled, excluded, n, no, 0, false, each once and in the order of their
\* declaration.
C16_LayerFilter ==
    result.kind = "repo" =>
      LET layers == result.layers
      IN  /\ \A i \in 1..Len(DeclaredLayers) :
               (\E j \in 1..Len(layers) : layers[j] = DeclaredLayers[i].id)
                  <=> ~Disabling(DeclaredLayers[i].val)
          /\ \A j \in 1..Len(layers) :
               \E i \in 1..Len(DeclaredLayers) : DeclaredLayers[i].id = layers[j]
          /\ \A i \in 1..Len(DeclaredLayers) : \A j \in 1..Len(DeclaredLayers) :
               \A m \in 1..Len(layers) : \A n \in 1..Len(layers) :
                 (layers[m] = DeclaredLayers[i].id
                    /\ layers[n] = DeclaredLayers[j].id /\ i < j) => m < n

C16_Witness ==
    /\ result.kind = "repo"
    /\ "layers" \in repo_config.keys
    /\ Len(repo_config.layers) = 2
    /\ repo_config.layers[1].id = "meta-b"
    /\ repo_config.layers[1].val.text = <<"D", "I", "S", "A", "B", "L", "E", "D">>
    /\ repo_config.layers[2].val.text = <<"e", "n", "a", "b", "l", "e", "d">>
    /\ result.layers = <<"meta-a">>

\* the line without the newline that ends it
Text(line) ==
    IF line # <<>> /\ line[Len(line)] = "\n"
    THEN SubSeq(line, 1, Len(line) - 1) ELSE line

\* neither blank nor a line that starts with '#'
Remaining(line) == Text(line) # <<>> /\ line[1] # "#"

\* where the first " #" of the line starts, or past its end
MarkerAt(line) ==
    LET at == {i \in 1..(Len(line) - 1) : line[i] = " " /\ line[i + 1] = "#"}
    IN  IF at = {} THEN Len(line) + 1
        ELSE CHOOSE i \in at : \A j \in at : i <= j

\* the text before the first " #", without the whitespace that ends it
NameOf(line) ==
    LET before == SubSeq(line, 1, MarkerAt(line) - 1)
        solid == {i \in 1..Len(before) : before[i] \notin {" ", "\t", "\n"}}
    IN  IF solid = {} THEN <<>>
        ELSE SubSeq(before, 1, CHOOSE i \in solid : \A j \in solid : j <= i)

\* the remaining lines of the series file
RemainingLines == {l \in 1..Len(series) : Remaining(series[l])}

\* the n-th remaining line
NthRemaining(n) ==
    CHOOSE l \in RemainingLines :
      Cardinality({m \in RemainingLines : m <= l}) = n

\* the remaining lines that do not name an existing file
Unusable == {l \in RemainingLines : NameOf(series[l]) \notin DirFiles}

\* C14: the patches read from a series file are, in the order of the lines,
\* the text before the first " #", right-trimmed, of exactly the lines that
\* are not blank and do not start with '#'; a remaining line whose name is
\* empty ends the reading with the parse error (return 1) when the lines before
\* it name existing files, and the reading succeeds exactly when every
\* remaining line names an existing file.
C14_SeriesParsing ==
    result.kind = "series" =>
      /\ result.ret = 0 <=> Unusable = {}
      /\ result.ret = 0 =>
            /\ Len(result.list) = Cardinality(RemainingLines)
            /\ \A n \in 1..Len(result.list) :
                 result.list[n].file[2] = NameOf(series[NthRemaining(n)])
      /\ \A l \in Unusable :
            (NameOf(series[l]) = <<>> /\ \A m \in Unusable : l <= m) =>
               result.ret = 1

C14_Witness ==
    /\ series = ExampleSeries
    /\ result.kind = "series"
    /\ result.ret = 0
    /\ Len(result.list) = 2
    /\ result.list[1].file[2] = <<"f", "o", "o", ".", "p", "a", "t", "c", "h">>
    /\ result.list[2].file[2] = <<"b", "a", "r", ".", "p", "a", "t", "c", "h">>

\* the lines of KAS_PREMIRRORS
MirrorRules == SplitLines(environ, <<>>)

\* the line is a rule: exactly two tokens
IsRule(i) == Len(Tokens(MirrorRules[i], <<>>)) = 2

\* the rules whose expression matches the configured url
Hits ==
    {i \in 1..Len(MirrorRules) :
       IsRule(i) /\ ReMatch(Tokens(MirrorRules[i], <<>>)[1], repo.url)}

\* the url as rule i rewrites it
RewrittenBy(i) ==
    ReSub(Tokens(MirrorRules[i], <<>>)[1], Tokens(MirrorRules[i], <<>>)[2],
          repo.url, 1)

\* C15: the effective url is the configured url rewritten by the first line
\* of KAS_PREMIRRORS that has exactly two tokens and whose expression matches
\* the configured url; later rules and lines with another number of tokens
\* play no part, and without such a line it is the configured url.
C15_MirrorRewrite ==
    result.kind = "url" =>
      IF Hits = {} THEN result.value = repo.url
      ELSE result.value = RewrittenBy(CHOOSE i \in Hits : \A j \in Hits : i <= j)

C15_Witness ==
    /\ result.kind = "url"
    /\ Len(MirrorRules) = 2
    /\ Hits = {1, 2}
    /\ RewrittenBy(1) # RewrittenBy(2)
    /\ result.value = RewrittenBy(1)
    /\ result.value # repo.url

\* C17: every checkout command directly follows resolveBranch; when that
\* printed something the command checks out the printed ref as a branch
\* (git: -B), otherwise it checks out the refspec itself and is no branch
\* checkout; resolveBranch of a Mercurial repository never prints anything.
C17_CheckoutTarget ==
    \A p \in Procs : \A i \in 1..Len(log[p]) :
      log[p][i].cmd = "checkout" =>
        /\ i > 1
        /\ log[p][i - 1].cmd = "resolve_branch"
        /\ IF "output" \in log[p][i - 1].opts
           THEN /\ repo.typ = "git"
                /\ "-B" \in log[p][i].opts
                /\ "desired_ref=output" \in log[p][i].opts
                /\ "desired_ref=refspec" \notin log[p][i].opts
           ELSE /\ "-B" \notin log[p][i].opts
                /\ "desired_ref=refspec" \in log[p][i].opts
                /\ "desired_ref=output" \notin log[p][i].opts

C17_Witness ==
    /\ repo.typ = "git"
    /\ pc[1] = "checked_out"
    /\ path[1].head = "refspec"
    /\ \E i \in 1..Len(log[1]) :
         /\ log[1][i].cmd = "checkout" /\ log[1][i].rc = 0
         /\ "-B" \in log[1][i].opts
         /\ "desired_ref=output" \in log[1][i].opts

\* the option of the backend that discards local changes
ForceOption == IF repo.typ = "git" THEN "--force" ELSE "--clean"

\* C18: with forceCheckout set, isDirty is never run, a checkout that has
\* returned for a repository with operations enabled and a refspec has issued
\* the checkout command, and every checkout command carries the force option
\* of its backend; without the flag no checkout command carries one.
C18_ForceCheckout ==
    \A p \in Procs :
      /\ ctx.force_checkout => ~Issued(p, "is_dirty")
      /\ (ctx.force_checkout /\ ~repo.operations_disabled
            /\ repo.refspec # None /\ pc[p] = "checked_out") =>
            Issued(p, "checkout")
      /\ \A i \in 1..Len(log[p]) :
           log[p][i].cmd = "checkout" =>
             IF ctx.force_checkout
             THEN log[p][i].opts \cap {"--force", "--clean"} = {ForceOption}
             ELSE log[p][i].opts \cap {"--force", "--clean"} = {}

C18_Witness ==
    /\ ctx.force_checkout
    /\ repo.typ = "hg"
    /\ pc[1] = "checked_out"
    /\ saved[1].dirty # {}
    /\ path[1].dirty = {}
    /\ \E i \in 1..Len(log[1]) :
         /\ log[1][i].cmd = "checkout" /\ log[1][i].rc = 0
         /\ "--clean" \in log[1][i].opts

\* the step issues the working-tree clone of run p
IssuesClone(p) ==
    /\ Len(log'[p]) = Len(log[p]) + 1
    /\ log'[p][Len(log'[p])].cmd = "clone"

\* C19: the canonical cache directory only ever changes by the rename of the
\* temporary directory of a run whose cache clone exited 0, and becomes what
\* that clone produced; and a run that issues the working-tree clone with the
\* cache directory as its source finds that directory in place.
C19_CachePublishedComplete ==
    [][/\ sdir' # sdir =>
            \E p \in Procs :
              /\ pc[p] = "cache_rename"
              /\ Has(p, "clone_ref", {0})
              /\ ~Has(p, "clone_ref", NonZero)
              /\ tmpdir[p] = CloneRefResult
              /\ sdir = "absent"
              /\ sdir' = tmpdir[p]
       /\ \A p \in Procs :
            (IssuesClone(p) /\ CloneSource(ctx.kas_repo_ref_dir, FALSE) = "cache")
               => (sdir # "absent" /\ sdir = CloneRefResult)]_vars

C19_Witness ==
    /\ repo.typ = "git"
    /\ ctx.kas_repo_ref_dir
    /\ Raced(1) /\ Raced(2)
    /\ sdir = "bare"
    /\ Has(1, "clone", {0})
    /\ pc[2] = "cache_cleanup"
    /\ tmpdir[2] = "bare"

\* the commands of fetch_async in the order the function has them
FetchOrder == <<"clone_ref", "clone", "set_remote_url", "contains_refspec",
                "fetch">>

IsFetchCmd(e) == \E r \in 1..Len(FetchOrder) : FetchOrder[r] = e.cmd

Rank(e) == CHOOSE r \in 1..Len(FetchOrder) : FetchOrder[r] = e.cmd

\* C20: the commands one fetch_async run issued are in the order cache clone,
\* working-tree clone, setRemoteURL, containsRefspec, fetch, none of them
\* twice; containsRefspec and fetch come after an attempt of setRemoteURL;
\* and fetch is issued only with the update flag set or after containsRefspec
\* exited non-zero.
C20_FetchCommandOrder ==
    \A p \in Procs :
      LET c == SelectSeq(log[p], IsFetchCmd)
      IN  /\ \A i \in 1..Len(c) : \A j \in (i + 1)..Len(c) :
               Rank(c[i]) < Rank(c[j])
          /\ (Issued(p, "contains_refspec") \/ Issued(p, "fetch")) =>
               Issued(p, "set_remote_url")
          /\ Issued(p, "fetch") =>
               (ctx.update \/ Has(p, "contains_refspec", NonZero))

C20_Witness ==
    /\ pc[1] = "fetched"
    /\ ~ctx.update
    /\ Len(log[1]) = 5
    /\ \A i \in 1..5 : log[1][i].cmd = FetchOrder[i]
    /\ log[1][4].rc # 0

====
